---- MODULE Spec2Model ----
(***************************************************************************)
(* Model of the download orchestrators of weather_reader:                  *)
(*   download_seq.download_many      (sequential)                          *)
(*   download_concur.download_many   (thread / process pool)               *)
(*   download_async.supervisor       (cooperative, asyncio)                *)
(* together with the per-city task download_one / download_one_async and   *)
(* the Python exception flow between them.                                 *)
(* Further sections model main's validation and persistence, the record    *)
(* flatteners, the callers of the cooperative strategy and the coordinate  *)
(* resolver update_city_lat_lon / get_lat_lon.                             *)
(***************************************************************************)
EXTENDS Integers, Sequences, FiniteSets, TLC

\* ---------------------------------------------------------------- bounds
MaxCities == 3
MaxConcur == 2
MaxRows == 2
MaxWeather == 2
MaxRuns == 2

\* ------------------------------------------------------------- constants
\* The first entries of the configured city table, in mapping order.
AllCities == <<"Istanbul", "London", "Saint Petersburg", "Berlin", "Madrid">>

\* What the remote endpoint does with one city's request.
Outcomes == {"ok", "not_found", "server_error", "timeout", "malformed"}

\* DownloadStatus = Enum("DownloadStatus", "OK NOT_FOUND ERROR")
DownloadStatus == {"OK", "NOT_FOUND", "ERROR"}

ConcurTypes == {"seq", "thread", "process", "coroutine"}
PoolTypes == {"thread", "process"}

\* A local variable that was never assigned.
Unbound == "unbound"

\* Python's None
None == "None"

VARIABLES
    concur_type,     \* the strategy of this run
    city_lat_lon,    \* the submitted cities, in mapping order
    fetch,           \* city -> what the remote endpoint answers
    max_concur_req,  \* pool size / semaphore capacity
    pc,              \* position of the orchestrator
    next_city,       \* index of the for loop over city_lat_lon.items()
    cur,             \* the city of the task the try block is working on
    task,            \* city -> "none" | "queued" | "running" | "done" | "cancelled"
    task_result,     \* city -> outcome of download_one for a finished task
    semaphore,       \* free permits of the asyncio.Semaphore
    counter,         \* Counter[DownloadStatus]
    dataframes,      \* list of the collected records (one city each)
    error,           \* supervisor's local `error`
    consumed,        \* cities whose iteration ran to counter[status] += 1
    exc,             \* exception unwinding out of the orchestrator
    interrupt,       \* "none" | "caught" | "propagated"
    resource,        \* the pool / AsyncClient: "none" | "open" | "closed"
    requests,        \* city -> number of requests issued for it
    \* validation and persistence in main
    main_df,         \* the batch main hands to validate_reading
    mpc,             \* position of main after the download
    row_index,       \* validate_reading's position in df.iterrows()
    valid_rows_count,
    invalid_rows,    \* indexes of the rows that failed validation
    valid_readings_batch,  \* what validate_reading returned to main
    pq_file,         \* rows written by save_to_pq
    db_table,        \* rows appended by save_to_db
    \* the record flattener
    flattener,       \* "seq" (flatten_reading_json) | "async"
    reading,         \* the nested response being flattened
    fpc,             \* "input" | "flat" | "raised"
    flattened_data,  \* the flat record
    fexc,            \* the exception the flattener raised
    \* the caller of the cooperative strategy
    entry,           \* "main" | "supervisor": the function the caller invokes
    arg_max_concur_req,  \* the limit the caller passes, NoLimit when it passes none
    arg_concur_type, \* the concur_type the caller passes to main
    module_name,     \* __name__ of main's module: "__main__" when run as a script
    selected,        \* the strategy main called, "none" when it called none
    result,          \* main's local result: Unbound or "bound"
    spc,             \* position of main around the strategy selection
    sexc,            \* the exception main ended with
    \* the coordinate resolver
    file_present,    \* whether cities.json exists
    cfg_cities,      \* "cities" of cities.json: the requested cities, in order
    cfg_city_lat_lon,  \* "city_lat_lon" of cities.json: city -> origin of its coordinates
    cfg_cached,      \* "cached_city_lat_lon" of cities.json
    rpc,             \* position of update_city_lat_lon
    run,             \* number of the program run
    loaded_city_lat_lon,  \* the local city_lat_lon of update_city_lat_lon
    resolved,        \* the cities get_lat_lon has given coordinates
    city_index,      \* index of get_lat_lon's loop over cities.items()
    lookups,         \* the geocoding requests issued in this run
    writes,          \* number of times this run wrote cities.json
    ret,             \* the mapping update_city_lat_lon returned
    rexc,            \* the exception resolution ended with, caught or not
    answer,          \* the provider's answer to the last lookup
    failed,          \* whether a lookup of this run failed
    main_pc          \* position of main around update_city_lat_lon

download_vars == <<concur_type, city_lat_lon, fetch, max_concur_req, pc, next_city, cur,
          task, task_result, semaphore, counter, dataframes, error, consumed,
          exc, interrupt, resource, requests>>

main_vars == <<main_df, mpc, row_index, valid_rows_count, invalid_rows,
               valid_readings_batch, pq_file, db_table>>

flatten_vars == <<flattener, reading, fpc, flattened_data, fexc>>

call_vars == <<entry, arg_max_concur_req, arg_concur_type, module_name, selected,
               result, spc, sexc>>

resolve_vars == <<file_present, cfg_cities, cfg_city_lat_lon, cfg_cached, rpc, run,
                  loaded_city_lat_lon, resolved, city_index, lookups, writes,
                  ret, rexc, answer, failed, main_pc>>

vars == <<download_vars, main_vars, flatten_vars, call_vars, resolve_vars>>

\* ------------------------------------------------------------- helpers
Cities == {city_lat_lon[i] : i \in 1..Len(city_lat_lon)}
M == Len(city_lat_lon)

Total(c) == c["OK"] + c["NOT_FOUND"] + c["ERROR"]

Names(s) == {s[i] : i \in 1..Len(s)}

InFlight == {c \in Cities : task[c] = "running"}

Return(df, status) == [kind |-> "return", df |-> df, status |-> status, exc |-> "none"]
Raise(e) == [kind |-> "raise", df |-> Unbound, status |-> "none", exc |-> e]
NoResult == [kind |-> "none", df |-> Unbound, status |-> "none", exc |-> "none"]

\* ------------------------------------------------------- the fetch itself
\* get_weather: httpx.get, resp.raise_for_status(), resp.json()
GetWeather(o) ==
    CASE o = "ok"           -> [kind |-> "return", exc |-> "none", status_code |-> 200]
      [] o = "not_found"    -> [kind |-> "raise", exc |-> "HTTPStatusError", status_code |-> 404]
      [] o = "server_error" -> [kind |-> "raise", exc |-> "HTTPStatusError", status_code |-> 500]
      [] o = "timeout"      -> [kind |-> "raise", exc |-> "RequestError", status_code |-> 0]
      [] o = "malformed"    -> [kind |-> "raise", exc |-> "JSONDecodeError", status_code |-> 200]

\* except httpx.HTTPError: base class of HTTPStatusError and RequestError
IsHTTPError(e) == e \in {"HTTPStatusError", "RequestError"}

\* only HTTPStatusError carries a .response attribute
HasResponse(e) == e = "HTTPStatusError"

\* `return (df, status)`: reading a local that was never bound raises
ReturnTuple(df, status) ==
    IF df = Unbound THEN Raise("UnboundLocalError") ELSE Return(df, status)

\* download_one: df is bound only in the else clause of the try
DownloadOne(city, o) ==
    LET r == GetWeather(o)
        status0 == "ERROR"
    IN  IF r.kind = "return"
        THEN ReturnTuple(city, "OK")
        ELSE IF IsHTTPError(r.exc)
             THEN IF ~HasResponse(r.exc)
                  THEN Raise("AttributeError")
                  ELSE ReturnTuple(Unbound,
                                   IF r.status_code = 404 THEN "NOT_FOUND" ELSE status0)
             ELSE Raise(r.exc)

\* download_one_async: the same protocol inside `async with semaphore`
DownloadOneAsync(city, o) ==
    LET r == GetWeather(o)
        status0 == "ERROR"
    IN  IF r.kind = "return"
        THEN ReturnTuple(city, "OK")
        ELSE IF IsHTTPError(r.exc)
             THEN IF ~HasResponse(r.exc)
                  THEN Raise("AttributeError")
                  ELSE ReturnTuple(Unbound,
                                   IF r.status_code = 404 THEN "NOT_FOUND" ELSE status0)
             ELSE Raise(r.exc)

\* a catch-all except clause
Handled_Any(e) == TRUE

\* the except clauses of the aggregation loops
Handled(e) == e \in {"HTTPStatusError", "RequestError"}

\* the parts of the program a specification does not exercise stay at rest
MainIdle ==
    /\ main_df = <<>> /\ mpc = "idle" /\ row_index = 0
    /\ valid_rows_count = 0 /\ invalid_rows = <<>>
    /\ valid_readings_batch = <<>> /\ pq_file = <<>> /\ db_table = <<>>

FlattenIdle ==
    /\ flattener = "seq" /\ reading = <<>> /\ fpc = "idle"
    /\ flattened_data = <<>> /\ fexc = "none"

\* concur_req left at its default None (or passed as 0): `if concur_req:` is false
NoLimit == 0

SelectIdle ==
    /\ arg_concur_type = None /\ module_name = "__main__" /\ selected = "none"
    /\ result = Unbound /\ spc = "idle" /\ sexc = "none"

CallIdle == entry = "none" /\ arg_max_concur_req = NoLimit /\ SelectIdle

ResolveIdle ==
    /\ file_present = FALSE /\ cfg_cities = <<>> /\ cfg_city_lat_lon = <<>>
    /\ cfg_cached = <<>> /\ rpc = "idle" /\ run = 0
    /\ loaded_city_lat_lon = <<>> /\ resolved = {} /\ city_index = 0
    /\ lookups = <<>> /\ writes = 0 /\ ret = <<>> /\ rexc = "none"
    /\ answer = "none" /\ failed = FALSE /\ main_pc = "idle"

DownloadIdle ==
    /\ concur_type = "seq" /\ city_lat_lon = <<>> /\ fetch = <<>>
    /\ max_concur_req = 1 /\ pc = "idle" /\ next_city = 1 /\ cur = "none"
    /\ task = <<>> /\ task_result = <<>> /\ semaphore = 0
    /\ counter = [s \in DownloadStatus |-> 0] /\ dataframes = <<>>
    /\ error = "none" /\ consumed = {} /\ exc = "none" /\ interrupt = "none"
    /\ resource = "none" /\ requests = <<>>

\* ------------------------------------------------------------------ Init
Init ==
    /\ concur_type \in ConcurTypes
    /\ \E n \in 0..MaxCities : city_lat_lon = SubSeq(AllCities, 1, n)
    /\ fetch \in [Cities -> Outcomes]
    /\ max_concur_req \in 1..MaxConcur
    /\ (concur_type = "seq" => max_concur_req = 1)
    /\ pc = "start"
    /\ next_city = 1
    /\ cur = "none"
    /\ task = [c \in Cities |-> "none"]
    /\ task_result = [c \in Cities |-> NoResult]
    /\ semaphore = 0
    /\ counter = [s \in DownloadStatus |-> 0]
    /\ dataframes = <<>>
    /\ error = "none"
    /\ consumed = {}
    /\ exc = "none"
    /\ interrupt = "none"
    /\ resource = "none"
    /\ requests = [c \in Cities |-> 0]
    /\ MainIdle
    /\ FlattenIdle
    /\ CallIdle
    /\ ResolveIdle

\* ------------------------------------------------------------ sequential
\* download_seq.download_many: counter and dataframes are created
SeqStart ==
    /\ pc = "start" /\ concur_type = "seq"
    /\ pc' = "loop"
    /\ UNCHANGED <<resource, requests, main_vars, flatten_vars,
                   call_vars, resolve_vars>>
    /\ UNCHANGED <<concur_type, city_lat_lon, fetch, max_concur_req, next_city, cur,
                   task, task_result, semaphore, counter, dataframes, error,
                   consumed, exc, interrupt>>

\* the loop walking the mapping from its last entry to its first
SeqCall_Reverse ==
    /\ pc = "loop" /\ concur_type = "seq" /\ next_city <= M
    /\ cur' = city_lat_lon[M + 1 - next_city]
    /\ task' = [task EXCEPT ![city_lat_lon[M + 1 - next_city]] = "running"]
    /\ pc' = "try"
    /\ requests' = [requests EXCEPT ![city_lat_lon[M + 1 - next_city]] = @ + 1]
    /\ UNCHANGED <<resource, main_vars, flatten_vars,
                   call_vars, resolve_vars>>
    /\ UNCHANGED <<concur_type, city_lat_lon, fetch, max_concur_req, next_city,
                   task_result, semaphore, counter, dataframes, error, consumed,
                   exc, interrupt>>

\* for city, data in city_lat_lon.items(): try: download_one(...) is entered
SeqCall ==
    /\ pc = "loop" /\ concur_type = "seq" /\ next_city <= M
    /\ cur' = city_lat_lon[next_city]
    /\ task' = [task EXCEPT ![city_lat_lon[next_city]] = "running"]
    /\ pc' = "try"
    /\ requests' = [requests EXCEPT ![city_lat_lon[next_city]] = @ + 1]
    /\ UNCHANGED <<resource, main_vars, flatten_vars,
                   call_vars, resolve_vars>>
    /\ UNCHANGED <<concur_type, city_lat_lon, fetch, max_concur_req, next_city,
                   task_result, semaphore, counter, dataframes, error, consumed,
                   exc, interrupt>>

\* download_one comes back; the rest of the iteration runs
SeqResult ==
    /\ pc = "try" /\ concur_type = "seq"
    /\ LET r == DownloadOne(cur, fetch[cur])
       IN /\ task' = [task EXCEPT ![cur] = "done"]
          /\ task_result' = [task_result EXCEPT ![cur] = r]
          /\ IF r.kind = "return"
             THEN /\ dataframes' = IF r.df # None
                                   THEN Append(dataframes, r.df) ELSE dataframes
                  /\ counter' = [counter EXCEPT ![r.status] = @ + 1]
                  /\ consumed' = consumed \cup {cur}
                  /\ pc' = "loop" /\ exc' = exc
             ELSE IF Handled(r.exc)
             THEN /\ dataframes' = dataframes
                  /\ counter' = [counter EXCEPT !["ERROR"] = @ + 1]
                  /\ consumed' = consumed \cup {cur}
                  /\ pc' = "loop" /\ exc' = exc
             ELSE /\ UNCHANGED <<dataframes, counter, consumed>>
                  /\ pc' = "raised" /\ exc' = r.exc
    /\ next_city' = next_city + 1
    /\ cur' = "none"
    /\ UNCHANGED <<resource, requests, main_vars, flatten_vars,
                   call_vars, resolve_vars>>
    /\ UNCHANGED <<concur_type, city_lat_lon, fetch, max_concur_req, semaphore,
                   error, interrupt>>

\* the for loop is exhausted
SeqLoopEnd ==
    /\ pc = "loop" /\ concur_type = "seq" /\ next_city > M
    /\ pc' = "concat"
    /\ UNCHANGED <<resource, requests, main_vars, flatten_vars,
                   call_vars, resolve_vars>>
    /\ UNCHANGED <<concur_type, city_lat_lon, fetch, max_concur_req, next_city, cur,
                   task, task_result, semaphore, counter, dataframes, error,
                   consumed, exc, interrupt>>

\* df = pd.concat(dataframes, ignore_index=True); return (df, counter)
\* pd.concat raises ValueError on an empty list
Concat ==
    /\ pc = "concat" /\ concur_type \in {"seq"} \cup PoolTypes
    /\ IF dataframes = <<>>
       THEN pc' = "raised" /\ exc' = "ValueError"
       ELSE pc' = "returned" /\ exc' = exc
    /\ UNCHANGED <<resource, requests, main_vars, flatten_vars,
                   call_vars, resolve_vars>>
    /\ UNCHANGED <<concur_type, city_lat_lon, fetch, max_concur_req, next_city, cur,
                   task, task_result, semaphore, counter, dataframes, error,
                   consumed, interrupt>>

\* ------------------------------------------------------- thread / process pool
\* download_concur.download_many: with PoolExecutor(max_workers=max_concur_req)
PoolStart ==
    /\ pc = "start" /\ concur_type \in PoolTypes
    /\ pc' = "submit"
    /\ resource' = "open"
    /\ UNCHANGED <<requests, main_vars, flatten_vars,
                   call_vars, resolve_vars>>
    /\ UNCHANGED <<concur_type, city_lat_lon, fetch, max_concur_req, next_city, cur,
                   task, task_result, semaphore, counter, dataframes, error,
                   consumed, exc, interrupt>>

\* future = executor.submit(download_one, base_url, city_entry)
PoolSubmit ==
    /\ pc = "submit" /\ concur_type \in PoolTypes /\ next_city <= M
    /\ task' = [task EXCEPT ![city_lat_lon[next_city]] = "queued"]
    /\ next_city' = next_city + 1
    /\ UNCHANGED <<resource, requests, main_vars, flatten_vars,
                   call_vars, resolve_vars>>
    /\ UNCHANGED <<concur_type, city_lat_lon, fetch, max_concur_req, pc, cur,
                   task_result, semaphore, counter, dataframes, error, consumed,
                   exc, interrupt>>

\* done_iter = as_completed(to_do_map)
PoolSubmitEnd ==
    /\ pc = "submit" /\ concur_type \in PoolTypes /\ next_city > M
    /\ pc' = "wait"
    /\ UNCHANGED <<resource, requests, main_vars, flatten_vars,
                   call_vars, resolve_vars>>
    /\ UNCHANGED <<concur_type, city_lat_lon, fetch, max_concur_req, next_city, cur,
                   task, task_result, semaphore, counter, dataframes, error,
                   consumed, exc, interrupt>>

\* the executor never runs more than max_workers work items at once
WorkerAvailable == Cardinality(InFlight) < max_concur_req

\* work items leave the executor's queue in submission order
HeadOfQueue(c) ==
    \A i, j \in 1..M :
        (city_lat_lon[j] = c /\ i < j) => task[city_lat_lon[i]] # "queued"

\* a pool worker takes the next work item and calls download_one
WorkerStart(c) ==
    /\ concur_type \in PoolTypes
    /\ task[c] = "queued" /\ HeadOfQueue(c) /\ WorkerAvailable
    /\ task' = [task EXCEPT ![c] = "running"]
    /\ requests' = [requests EXCEPT ![c] = @ + 1]
    /\ UNCHANGED <<resource, main_vars, flatten_vars,
                   call_vars, resolve_vars>>
    /\ UNCHANGED <<concur_type, city_lat_lon, fetch, max_concur_req, pc, next_city,
                   cur, task_result, semaphore, counter, dataframes, error,
                   consumed, exc, interrupt>>

\* a worker that puts a failed download back on the queue
WorkerFinish_Retry(c) ==
    /\ concur_type \in PoolTypes
    /\ task[c] = "running"
    /\ task' = [task EXCEPT ![c] = IF DownloadOne(c, fetch[c]).kind = "raise"
                                   THEN "queued" ELSE "done"]
    /\ task_result' = [task_result EXCEPT ![c] = DownloadOne(c, fetch[c])]
    /\ UNCHANGED <<resource, requests, main_vars, flatten_vars,
                   call_vars, resolve_vars>>
    /\ UNCHANGED <<concur_type, city_lat_lon, fetch, max_concur_req, pc, next_city,
                   cur, semaphore, counter, dataframes, error, consumed, exc,
                   interrupt>>

\* download_one finishes in the worker; the future holds its result or exception
WorkerFinish(c) ==
    /\ concur_type \in PoolTypes
    /\ task[c] = "running"
    /\ task' = [task EXCEPT ![c] = "done"]
    /\ task_result' = [task_result EXCEPT ![c] = DownloadOne(c, fetch[c])]
    /\ UNCHANGED <<resource, requests, main_vars, flatten_vars,
                   call_vars, resolve_vars>>
    /\ UNCHANGED <<concur_type, city_lat_lon, fetch, max_concur_req, pc, next_city,
                   cur, semaphore, counter, dataframes, error, consumed, exc,
                   interrupt>>

\* for future in done_iter: the next completed future is yielded
PoolNext ==
    /\ pc = "wait" /\ concur_type \in PoolTypes
    /\ \E c \in Cities :
          /\ task[c] = "done" /\ c \notin consumed
          /\ cur' = c
    /\ pc' = "try"
    /\ UNCHANGED <<resource, requests, main_vars, flatten_vars,
                   call_vars, resolve_vars>>
    /\ UNCHANGED <<concur_type, city_lat_lon, fetch, max_concur_req, next_city,
                   task, task_result, semaphore, counter, dataframes, error,
                   consumed, exc, interrupt>>

\* df, status = future.result(); dataframes.append(df); ...; counter[status] += 1
PoolResult ==
    /\ pc = "try" /\ concur_type \in PoolTypes
    /\ LET r == task_result[cur]
       IN IF r.kind = "return"
          THEN /\ dataframes' = Append(dataframes, r.df)
               /\ counter' = [counter EXCEPT ![r.status] = @ + 1]
               /\ consumed' = consumed \cup {cur}
               /\ pc' = "wait" /\ exc' = exc
          ELSE IF Handled(r.exc)
          THEN /\ dataframes' = dataframes
               /\ counter' = [counter EXCEPT !["ERROR"] = @ + 1]
               /\ consumed' = consumed \cup {cur}
               /\ pc' = "wait" /\ exc' = exc
          ELSE /\ UNCHANGED <<dataframes, counter, consumed>>
               /\ pc' = "shutdown" /\ exc' = r.exc
    /\ cur' = "none"
    /\ UNCHANGED <<resource, requests, main_vars, flatten_vars,
                   call_vars, resolve_vars>>
    /\ UNCHANGED <<concur_type, city_lat_lon, fetch, max_concur_req, next_city,
                   task, task_result, semaphore, error, interrupt>>

\* a loop that stops once the last submitted city has been taken
PoolLoopEnd_LastSubmitted ==
    /\ pc = "wait" /\ concur_type \in PoolTypes
    /\ M > 0 /\ city_lat_lon[M] \in consumed
    /\ pc' = "shutdown"
    /\ UNCHANGED <<resource, requests, main_vars, flatten_vars,
                   call_vars, resolve_vars>>
    /\ UNCHANGED <<concur_type, city_lat_lon, fetch, max_concur_req, next_city, cur,
                   task, task_result, semaphore, counter, dataframes, error,
                   consumed, exc, interrupt>>

\* as_completed is exhausted: the with block is left
PoolLoopEnd ==
    /\ pc = "wait" /\ concur_type \in PoolTypes
    /\ consumed = Cities
    /\ pc' = "shutdown"
    /\ UNCHANGED <<resource, requests, main_vars, flatten_vars,
                   call_vars, resolve_vars>>
    /\ UNCHANGED <<concur_type, city_lat_lon, fetch, max_concur_req, next_city, cur,
                   task, task_result, semaphore, counter, dataframes, error,
                   consumed, exc, interrupt>>

\* a pool that is shut down on the normal path only
PoolExit_Leak ==
    /\ pc = "shutdown" /\ concur_type \in PoolTypes
    /\ \A c \in Cities : task[c] \in {"none", "done"}
    /\ pc' = IF exc = "none" THEN "concat" ELSE "raised"
    /\ resource' = IF exc = "none" THEN "closed" ELSE resource
    /\ UNCHANGED <<requests, main_vars, flatten_vars,
                   call_vars, resolve_vars>>
    /\ UNCHANGED <<concur_type, city_lat_lon, fetch, max_concur_req, next_city, cur,
                   task, task_result, semaphore, counter, dataframes, error,
                   consumed, exc, interrupt>>

\* PoolExecutor.__exit__: shutdown(wait=True) returns once every submitted
\* work item has run; a pending exception then continues to unwind
PoolExit ==
    /\ pc = "shutdown" /\ concur_type \in PoolTypes
    /\ \A c \in Cities : task[c] \in {"none", "done"}
    /\ pc' = IF exc = "none" THEN "concat" ELSE "raised"
    /\ resource' = "closed"
    /\ UNCHANGED <<requests, main_vars, flatten_vars,
                   call_vars, resolve_vars>>
    /\ UNCHANGED <<concur_type, city_lat_lon, fetch, max_concur_req, next_city, cur,
                   task, task_result, semaphore, counter, dataframes, error,
                   consumed, exc, interrupt>>

\* ------------------------------------------------------------ cooperative
\* a gate sized by the number of cities instead of by concur_req
SemaphoreInit_PerCity == Len(city_lat_lon)

\* asyncio.Semaphore(concur_req)
SemaphoreInit == max_concur_req

\* asyncio.run cancels every task that is still pending when supervisor ends
CancelPending == [c \in Cities |-> IF task[c] = "done" THEN "done" ELSE "cancelled"]

\* supervisor up to to_do_iter = asyncio.as_completed(to_do): semaphore and
\* client are created and every coroutine is scheduled as a task
AsyncStart ==
    /\ pc = "start" /\ concur_type = "coroutine"
    /\ semaphore' = SemaphoreInit
    /\ task' = [c \in Cities |-> "queued"]
    /\ next_city' = M + 1
    /\ pc' = "wait"
    /\ resource' = "open"
    /\ UNCHANGED <<requests, main_vars, flatten_vars,
                   call_vars, resolve_vars>>
    /\ UNCHANGED <<concur_type, city_lat_lon, fetch, max_concur_req, cur,
                   task_result, counter, dataframes, error, consumed, exc,
                   interrupt>>

\* async with semaphore: entered, the request is issued (only while the
\* supervisor is inside its loop: afterwards the client is closed)
AsyncAcquire(c) ==
    /\ concur_type = "coroutine"
    /\ pc \in {"wait", "try"}
    /\ task[c] = "queued" /\ semaphore > 0
    /\ semaphore' = semaphore - 1
    /\ task' = [task EXCEPT ![c] = "running"]
    /\ requests' = [requests EXCEPT ![c] = @ + 1]
    /\ UNCHANGED <<resource, main_vars, flatten_vars,
                   call_vars, resolve_vars>>
    /\ UNCHANGED <<concur_type, city_lat_lon, fetch, max_concur_req, pc, next_city,
                   cur, task_result, counter, dataframes, error, consumed, exc,
                   interrupt>>

\* a task that gives its permit back only after a successful fetch
AsyncFinish_KeepsPermitOnFailure(c) ==
    /\ concur_type = "coroutine"
    /\ pc \in {"wait", "try"}
    /\ task[c] = "running"
    /\ semaphore' = IF fetch[c] = "ok" THEN semaphore + 1 ELSE semaphore
    /\ task' = [task EXCEPT ![c] = "done"]
    /\ task_result' = [task_result EXCEPT ![c] = DownloadOneAsync(c, fetch[c])]
    /\ UNCHANGED <<resource, requests, main_vars, flatten_vars,
                   call_vars, resolve_vars>>
    /\ UNCHANGED <<concur_type, city_lat_lon, fetch, max_concur_req, pc, next_city,
                   cur, counter, dataframes, error, consumed, exc, interrupt>>

\* a task that counts its own outcome instead of leaving it to supervisor
AsyncFinish_Tallies(c) ==
    /\ concur_type = "coroutine"
    /\ pc \in {"wait", "try"}
    /\ task[c] = "running"
    /\ semaphore' = semaphore + 1
    /\ task' = [task EXCEPT ![c] = "done"]
    /\ task_result' = [task_result EXCEPT ![c] = DownloadOneAsync(c, fetch[c])]
    /\ counter' = IF DownloadOneAsync(c, fetch[c]).kind = "return"
                  THEN [counter EXCEPT !["OK"] = @ + 1] ELSE counter
    /\ UNCHANGED <<resource, requests, main_vars, flatten_vars,
                   call_vars, resolve_vars>>
    /\ UNCHANGED <<concur_type, city_lat_lon, fetch, max_concur_req, pc, next_city,
                   cur, dataframes, error, consumed, exc, interrupt>>

\* the awaited request ends, the semaphore is released, download_one_async ends
AsyncFinish(c) ==
    /\ concur_type = "coroutine"
    /\ pc \in {"wait", "try"}
    /\ task[c] = "running"
    /\ semaphore' = semaphore + 1
    /\ task' = [task EXCEPT ![c] = "done"]
    /\ task_result' = [task_result EXCEPT ![c] = DownloadOneAsync(c, fetch[c])]
    /\ UNCHANGED <<resource, requests, main_vars, flatten_vars,
                   call_vars, resolve_vars>>
    /\ UNCHANGED <<concur_type, city_lat_lon, fetch, max_concur_req, pc, next_city,
                   cur, counter, dataframes, error, consumed, exc, interrupt>>

\* for coro in to_do_iter: one_response = await coro resumes with a finished task
AsyncNext ==
    /\ pc = "wait" /\ concur_type = "coroutine"
    /\ \E c \in Cities :
          /\ task[c] = "done" /\ c \notin consumed
          /\ cur' = c
    /\ pc' = "try"
    /\ UNCHANGED <<resource, requests, main_vars, flatten_vars,
                   call_vars, resolve_vars>>
    /\ UNCHANGED <<concur_type, city_lat_lon, fetch, max_concur_req, next_city,
                   task, task_result, semaphore, counter, dataframes, error,
                   consumed, exc, interrupt>>

\* the body of supervisor's loop; an exception no clause handles leaves
\* supervisor and asyncio.run, which cancels the tasks still pending
AsyncResult ==
    /\ pc = "try" /\ concur_type = "coroutine"
    /\ LET r == task_result[cur]
           err == IF r.kind = "raise" /\ Handled(r.exc) THEN r.exc ELSE error
       IN IF r.kind = "return" \/ Handled(r.exc)
          THEN /\ dataframes' = IF r.kind = "return" /\ r.df # None
                                THEN Append(dataframes, r.df) ELSE dataframes
               /\ error' = err
               /\ counter' = IF err # "none"
                             THEN [counter EXCEPT !["ERROR"] = @ + 1]
                             ELSE [counter EXCEPT ![r.status] = @ + 1]
               /\ consumed' = consumed \cup {cur}
               /\ pc' = "wait" /\ exc' = exc
               /\ UNCHANGED <<task, semaphore>>
          ELSE /\ UNCHANGED <<dataframes, counter, consumed, error>>
               /\ pc' = "raised" /\ exc' = r.exc
               /\ task' = CancelPending
               /\ semaphore' = semaphore + Cardinality(InFlight)
    /\ cur' = "none"
    /\ resource' = IF task_result[cur].kind = "return" \/ Handled(task_result[cur].exc)
                 THEN resource ELSE "closed"
    /\ UNCHANGED <<requests, main_vars, flatten_vars,
                   call_vars, resolve_vars>>
    /\ UNCHANGED <<concur_type, city_lat_lon, fetch, max_concur_req, next_city,
                   task_result, interrupt>>

\* the loop over to_do_iter is exhausted
AsyncLoopEnd ==
    /\ pc = "wait" /\ concur_type = "coroutine"
    /\ consumed = Cities
    /\ pc' = "concat"
    /\ UNCHANGED <<resource, requests, main_vars, flatten_vars,
                   call_vars, resolve_vars>>
    /\ UNCHANGED <<concur_type, city_lat_lon, fetch, max_concur_req, next_city, cur,
                   task, task_result, semaphore, counter, dataframes, error,
                   consumed, exc, interrupt>>

\* df = pd.concat(dataframes, ignore_index=True); the client is closed,
\* supervisor returns and asyncio.run cancels what is still pending
AsyncConcat ==
    /\ pc = "concat" /\ concur_type = "coroutine"
    /\ IF dataframes = <<>>
       THEN pc' = "raised" /\ exc' = "ValueError"
       ELSE pc' = "returned" /\ exc' = exc
    /\ task' = CancelPending
    /\ semaphore' = semaphore + Cardinality(InFlight)
    /\ resource' = "closed"
    /\ UNCHANGED <<requests, main_vars, flatten_vars,
                   call_vars, resolve_vars>>
    /\ UNCHANGED <<concur_type, city_lat_lon, fetch, max_concur_req, next_city, cur,
                   task_result, counter, dataframes, error, consumed, interrupt>>

\* ------------------------------------------------------ operator interrupt
\* positions of the orchestrator that lie inside the try block of the loop
InTry == pc = "try"

\* positions where the orchestrator runs or waits outside that try block
OutsideTry == pc \in {"loop", "submit", "wait"}

\* the handler written with `continue` where the code has `break`
InterruptCaught_Continue ==
    /\ interrupt = "none" /\ InTry
    /\ interrupt' = "caught"
    /\ cur' = "none"
    /\ pc' = IF concur_type = "seq" THEN "loop" ELSE "wait"
    /\ task' = IF concur_type = "seq" THEN [task EXCEPT ![cur] = "cancelled"] ELSE task
    /\ next_city' = IF concur_type = "seq" THEN next_city + 1 ELSE next_city
    /\ consumed' = IF concur_type = "seq" THEN consumed ELSE consumed \cup {cur}
    /\ UNCHANGED <<resource, requests, main_vars, flatten_vars,
                   call_vars, resolve_vars>>
    /\ UNCHANGED <<concur_type, city_lat_lon, fetch, max_concur_req,
                   task_result, semaphore, counter, dataframes, error, exc>>

\* KeyboardInterrupt inside the try block: except KeyboardInterrupt: break
InterruptCaught ==
    /\ interrupt = "none" /\ InTry
    /\ interrupt' = "caught"
    /\ cur' = "none"
    /\ pc' = IF concur_type \in PoolTypes THEN "shutdown" ELSE "concat"
    /\ task' = IF concur_type = "seq" THEN [task EXCEPT ![cur] = "cancelled"] ELSE task
    /\ UNCHANGED <<resource, requests, main_vars, flatten_vars,
                   call_vars, resolve_vars>>
    /\ UNCHANGED <<concur_type, city_lat_lon, fetch, max_concur_req, next_city,
                   task_result, semaphore, counter, dataframes, error, consumed,
                   exc>>

\* KeyboardInterrupt outside the try block (the for statement, the wait inside
\* as_completed, the event loop): no clause handles it, it unwinds the call
InterruptPropagates ==
    /\ interrupt = "none"
    /\ OutsideTry \/ (InTry /\ concur_type = "coroutine")
    /\ interrupt' = "propagated"
    /\ exc' = "KeyboardInterrupt"
    /\ cur' = "none"
    /\ pc' = IF concur_type \in PoolTypes THEN "shutdown" ELSE "raised"
    /\ task' = IF concur_type = "coroutine" THEN CancelPending ELSE task
    /\ semaphore' = IF concur_type = "coroutine"
                    THEN semaphore + Cardinality(InFlight) ELSE semaphore
    /\ resource' = IF concur_type = "coroutine" THEN "closed" ELSE resource
    /\ UNCHANGED <<requests, main_vars, flatten_vars,
                   call_vars, resolve_vars>>
    /\ UNCHANGED <<concur_type, city_lat_lon, fetch, max_concur_req, next_city,
                   task_result, counter, dataframes, error, consumed>>

Next ==
    \/ SeqStart
    \/ SeqCall
    \/ SeqResult
    \/ SeqLoopEnd
    \/ Concat
    \/ PoolStart
    \/ PoolSubmit
    \/ PoolSubmitEnd
    \/ \E c \in Cities : WorkerStart(c)
    \/ \E c \in Cities : WorkerFinish(c)
    \/ PoolNext
    \/ PoolResult
    \/ PoolLoopEnd
    \/ PoolExit
    \/ AsyncStart
    \/ \E c \in Cities : AsyncAcquire(c)
    \/ \E c \in Cities : AsyncFinish(c)
    \/ AsyncNext
    \/ AsyncResult
    \/ AsyncLoopEnd
    \/ AsyncConcat
    \/ InterruptCaught
    \/ InterruptPropagates

Spec == Init /\ [][Next]_vars

\* every step of the program itself; the operator's interrupt is not one
Progress ==
    \/ SeqStart \/ SeqCall \/ SeqResult \/ SeqLoopEnd \/ Concat
    \/ PoolStart \/ PoolSubmit \/ PoolSubmitEnd
    \/ \E c \in Cities : WorkerStart(c)
    \/ \E c \in Cities : WorkerFinish(c)
    \/ PoolNext \/ PoolResult \/ PoolLoopEnd \/ PoolExit
    \/ AsyncStart
    \/ \E c \in Cities : AsyncAcquire(c)
    \/ \E c \in Cities : AsyncFinish(c)
    \/ AsyncNext \/ AsyncResult \/ AsyncLoopEnd \/ AsyncConcat

\* the interpreter, the pool workers and the event loop keep running, and
\* every request that was issued ends
FairSpec == Init /\ [][Next]_vars /\ WF_vars(Progress)

\* ------------------------------------- callers of the cooperative strategy
\* the caller invokes main(concur_type="coroutine", max_concur_req=K) or
\* supervisor(city_lat_lon, base_url[, concur_req])
CallInit ==
    /\ concur_type = "coroutine"
    /\ \E n \in 0..MaxCities : city_lat_lon = SubSeq(AllCities, 1, n)
    /\ fetch \in [Cities -> Outcomes]
    /\ max_concur_req = NoLimit
    /\ pc = "call"
    /\ next_city = 1
    /\ cur = "none"
    /\ task = [c \in Cities |-> "none"]
    /\ task_result = [c \in Cities |-> NoResult]
    /\ semaphore = 0
    /\ counter = [s \in DownloadStatus |-> 0]
    /\ dataframes = <<>>
    /\ error = "none"
    /\ consumed = {}
    /\ exc = "none"
    /\ interrupt = "none"
    /\ resource = "none"
    /\ requests = [c \in Cities |-> 0]
    /\ entry \in {"main", "supervisor"}
    /\ arg_max_concur_req \in {NoLimit} \cup 1..MaxConcur
    /\ SelectIdle
    /\ MainIdle
    /\ FlattenIdle
    /\ ResolveIdle

\* main: download_readings_async(SERVERS["WEATHER"], city_lat_lon,
\*                               max_concur_req=len(city_lat_lon))
MainCallsAsync ==
    /\ pc = "call" /\ entry = "main"
    /\ max_concur_req' = M
    /\ pc' = "start"
    /\ UNCHANGED <<concur_type, city_lat_lon, fetch, next_city, cur, task,
                   task_result, semaphore, counter, dataframes, error, consumed,
                   exc, interrupt, resource, requests>>
    /\ UNCHANGED <<main_vars, flatten_vars, call_vars, resolve_vars>>

\* supervisor(city_lat_lon, base_url, concur_req) called with the caller's
\* limit, None when the caller gives none
SupervisorCalled ==
    /\ pc = "call" /\ entry = "supervisor"
    /\ max_concur_req' = arg_max_concur_req
    /\ pc' = "start"
    /\ UNCHANGED <<concur_type, city_lat_lon, fetch, next_city, cur, task,
                   task_result, semaphore, counter, dataframes, error, consumed,
                   exc, interrupt, resource, requests>>
    /\ UNCHANGED <<main_vars, flatten_vars, call_vars, resolve_vars>>

\* what `async with None` raises: TypeError from Python 3.11 on,
\* AttributeError (__aenter__) before
AsyncWithNone == {"TypeError", "AttributeError"}

\* download_one_async with semaphore None: `async with semaphore` raises
\* inside the try, no except clause matches, the task ends with the exception
AsyncEnterNone(c) ==
    /\ concur_type = "coroutine"
    /\ pc \in {"wait", "try"}
    /\ task[c] = "queued" /\ max_concur_req = NoLimit
    /\ task' = [task EXCEPT ![c] = "done"]
    /\ \E e \in AsyncWithNone : task_result' = [task_result EXCEPT ![c] = Raise(e)]
    /\ UNCHANGED <<concur_type, city_lat_lon, fetch, max_concur_req, pc, next_city,
                   cur, semaphore, counter, dataframes, error, consumed, exc,
                   interrupt, resource, requests>>
    /\ UNCHANGED <<main_vars, flatten_vars, call_vars, resolve_vars>>

CallNext ==
    \/ MainCallsAsync
    \/ SupervisorCalled
    \/ AsyncStart
    \/ \E c \in Cities : AsyncAcquire(c)
    \/ \E c \in Cities : AsyncEnterNone(c)
    \/ \E c \in Cities : AsyncFinish(c)
    \/ AsyncNext
    \/ AsyncResult
    \/ AsyncLoopEnd
    \/ AsyncConcat
    \/ InterruptCaught
    \/ InterruptPropagates

CallSpec == CallInit /\ [][CallNext]_vars

\* ------------------------------------------- main's choice of a strategy
\* values of concur_type: the three named ones, the default None and a
\* string main does not know
MainConcurArgs == {"thread", "process", "coroutine", None, "sequential"}

\* main imported and called, or main.py run as a script
ModuleNames == {"__main__", "main"}

\* what the download strategies can end with
StrategyOutcomes == {"returned", "UnboundLocalError", "AttributeError", "ValueError"}

\* the if / elif / else of main: only the thread branch is free of the
\* `if __name__ == "__main__"` guard
Selected(ct, name) ==
    IF ct = "thread" THEN "thread"
    ELSE IF ct = "process" THEN (IF name = "__main__" THEN "process" ELSE "none")
    ELSE IF ct = "coroutine" THEN (IF name = "__main__" THEN "coroutine" ELSE "none")
    ELSE (IF name = "__main__" THEN "seq" ELSE "none")

SelectInit ==
    /\ DownloadIdle /\ MainIdle /\ FlattenIdle /\ ResolveIdle
    /\ entry = "main"
    /\ arg_max_concur_req \in {NoLimit} \cup 1..MaxConcur
    /\ arg_concur_type \in MainConcurArgs
    /\ module_name \in ModuleNames
    /\ selected = "none" /\ result = Unbound /\ spc = "select" /\ sexc = "none"

\* main: the branch for concur_type is taken and, inside it, the strategy
\* is called when the guard lets it
MainSelect ==
    /\ spc = "select"
    /\ selected' = Selected(arg_concur_type, module_name)
    /\ spc' = IF Selected(arg_concur_type, module_name) = "none"
              THEN "unpack" ELSE "download"
    /\ UNCHANGED <<entry, arg_max_concur_req, arg_concur_type, module_name, result,
                   sexc>>
    /\ UNCHANGED <<download_vars, main_vars, flatten_vars, resolve_vars>>

\* result = download_readings_...(...): the strategy returns its
\* (batch, tally) pair, or its exception ends main
StrategyEnds ==
    /\ spc = "download"
    /\ \E o \in StrategyOutcomes :
          IF o = "returned"
          THEN result' = "bound" /\ spc' = "unpack" /\ sexc' = sexc
          ELSE result' = result /\ spc' = "raised" /\ sexc' = o
    /\ UNCHANGED <<entry, arg_max_concur_req, arg_concur_type, module_name,
                   selected>>
    /\ UNCHANGED <<download_vars, main_vars, flatten_vars, resolve_vars>>

\* df = result[0]: reading the local that no branch bound raises
MainUnpack ==
    /\ spc = "unpack"
    /\ IF result = Unbound
       THEN spc' = "raised" /\ sexc' = "UnboundLocalError"
       ELSE spc' = "validate" /\ sexc' = sexc
    /\ UNCHANGED <<entry, arg_max_concur_req, arg_concur_type, module_name,
                   selected, result>>
    /\ UNCHANGED <<download_vars, main_vars, flatten_vars, resolve_vars>>

SelectNext ==
    \/ MainSelect
    \/ StrategyEnds
    \/ MainUnpack

SelectSpec == SelectInit /\ [][SelectNext]_vars

\* --------------------------------------------- validation and persistence
\* values a row can carry in the three fields Reading constrains by range
Lats == {-90, 41}
Lons == {28, 180}
Humidities == {-1, 0, 100, 101}

Rows == [lat : Lats, lon : Lons, humidity : Humidities]

\* the batches of 1..n rows
Batches(n) == UNION {[1..k -> Rows] : k \in 1..n}

\* Reading(**row.to_dict()): lat gt -90 lt 90, lon gt -180 lt 180,
\* humidity ge 0 le 100
ReadingValid(row) ==
    /\ row.lat > -90 /\ row.lat < 90
    /\ row.lon > -180 /\ row.lon < 180
    /\ row.humidity >= 0 /\ row.humidity <= 100

\* main has its batch: df = result[0]
MainInit ==
    /\ DownloadIdle /\ FlattenIdle /\ CallIdle /\ ResolveIdle
    /\ main_df \in Batches(MaxRows)
    /\ mpc = "validate"
    /\ row_index = 1
    /\ valid_rows_count = 0
    /\ invalid_rows = <<>>
    /\ valid_readings_batch = <<>>
    /\ pq_file = <<>>
    /\ db_table = <<>>

\* one turn of `for index, row in df.iterrows()`
ValidateRow ==
    /\ mpc = "validate" /\ row_index <= Len(main_df)
    /\ IF ReadingValid(main_df[row_index])
       THEN /\ valid_rows_count' = valid_rows_count + 1
            /\ invalid_rows' = invalid_rows
       ELSE /\ valid_rows_count' = valid_rows_count
            /\ invalid_rows' = Append(invalid_rows, row_index)
    /\ row_index' = row_index + 1
    /\ UNCHANGED <<main_df, mpc, valid_readings_batch, pq_file, db_table>>
    /\ UNCHANGED <<download_vars, flatten_vars, call_vars, resolve_vars>>

\* a validator that hands back the valid rows only
ValidateReturn_Filtered ==
    /\ mpc = "validate" /\ row_index > Len(main_df)
    /\ valid_readings_batch' = SelectSeq(main_df, ReadingValid)
    /\ mpc' = "save_pq"
    /\ UNCHANGED <<main_df, row_index, valid_rows_count, invalid_rows, pq_file,
                   db_table>>
    /\ UNCHANGED <<download_vars, flatten_vars, call_vars, resolve_vars>>

\* return df; valid_readings_batch = validate_reading(df)
ValidateReturn ==
    /\ mpc = "validate" /\ row_index > Len(main_df)
    /\ valid_readings_batch' = main_df
    /\ mpc' = "save_pq"
    /\ UNCHANGED <<main_df, row_index, valid_rows_count, invalid_rows, pq_file,
                   db_table>>
    /\ UNCHANGED <<download_vars, flatten_vars, call_vars, resolve_vars>>

\* save_to_pq(valid_readings_batch): the table is written, or the write
\* fails and the error is only logged
SaveToPq ==
    /\ mpc = "save_pq"
    /\ \E written \in BOOLEAN :
          pq_file' = IF written THEN valid_readings_batch ELSE pq_file
    /\ mpc' = "save_db"
    /\ UNCHANGED <<main_df, row_index, valid_rows_count, invalid_rows,
                   valid_readings_batch, db_table>>
    /\ UNCHANGED <<download_vars, flatten_vars, call_vars, resolve_vars>>

\* save_to_db(valid_readings_batch): the rows are appended to the table
SaveToDb ==
    /\ mpc = "save_db"
    /\ db_table' = db_table \o valid_readings_batch
    /\ mpc' = "done"
    /\ UNCHANGED <<main_df, row_index, valid_rows_count, invalid_rows,
                   valid_readings_batch, pq_file>>
    /\ UNCHANGED <<download_vars, flatten_vars, call_vars, resolve_vars>>

MainNext ==
    \/ ValidateRow
    \/ ValidateReturn
    \/ SaveToPq
    \/ SaveToDb

MainSpec == MainInit /\ [][MainNext]_vars

\* ------------------------------------------------------ record flattener
\* JSON values: a scalar, a mapping (sequence of key/value entries in
\* insertion order) or a list of mappings
Scalar(x) == [t |-> "scalar", s |-> x, d |-> <<>>]
Dict(entries) == [t |-> "dict", s |-> 0, d |-> entries]
List(elems) == [t |-> "list", s |-> 0, d |-> elems]
Entry(k, v) == [k |-> k, v |-> v]

\* key in mapping
Has(d, key) == \E i \in 1..Len(d) : d[i].k = key

\* mapping.get(key, default)
Get(d, key, default) ==
    IF Has(d, key) THEN d[CHOOSE i \in 1..Len(d) : d[i].k = key].v ELSE default

\* the assignment left out
Put_Lost(f, key, value) == f

\* items[key] = value
Put(f, key, value) ==
    [x \in DOMAIN f \cup {key} |-> IF x = key THEN value ELSE f[x]]

\* items.update(other)
Update(f, g) ==
    [x \in DOMAIN f \cup DOMAIN g |-> IF x \in DOMAIN g THEN g[x] ELSE f[x]]

\* df.drop(columns=..., errors="ignore")
Drop(f, keys) == [x \in DOMAIN f \ keys |-> f[x]]

\* the key path joined by the separator
NewKey_Joined(parent_key, k, sep) ==
    IF parent_key # "" THEN parent_key \o sep \o k ELSE k

\* new_key = f"{k}" if parent_key else k
NewKey(parent_key, k, sep) == IF parent_key # "" THEN k ELSE k

\* flatten_nested_dict / flatten_nested_dict_async
RECURSIVE FlattenNestedDict(_, _, _)
FlattenNestedDict(nested_dict, parent_key, sep) ==
    LET items[i \in 0..Len(nested_dict)] ==
            IF i = 0 THEN <<>>
            ELSE LET new_key == NewKey(parent_key, nested_dict[i].k, sep)
                     v == nested_dict[i].v
                 IN IF v.t = "dict"
                    THEN Update(items[i - 1], FlattenNestedDict(v.d, new_key, sep))
                    ELSE Put(items[i - 1], new_key, v)
    IN items[Len(nested_dict)]

\* reading["current"]
Current(r) == Get(r, "current", Dict(<<>>)).d

\* reading["current"]["weather"]
Weather(r) == Get(Current(r), "weather", List(<<>>)).d

\* reading["current"].get("wind_gust", 0)
WindGust(r) == Get(Current(r), "wind_gust", Scalar(0))

\* reading["current"].get("rain", {}).get("1h", 0)
Rain1h(r) == Get(Get(Current(r), "rain", Dict(<<>>)).d, "1h", Scalar(0))

\* the snow line written as a copy of the rain line
Snow1h_CopyOfRain(r) == Get(Get(Current(r), "rain", Dict(<<>>)).d, "1h", Scalar(0))

\* reading["current"].get("snow", {}).get("1h", 0)
Snow1h(r) == Get(Get(Current(r), "snow", Dict(<<>>)).d, "1h", Scalar(0))

\* the city the reading belongs to
FlattenCity == AllCities[1]

\* the body shared by flatten_reading_json and flatten_reading_json_async,
\* which differ in the columns they drop
FlattenReading(city, r, dropped) ==
    LET f0 == FlattenNestedDict(r, "", "_") IN
    IF ~Has(r, "current")
    THEN [kind |-> "raise", exc |-> "KeyError", data |-> f0]
    ELSE IF Get(r, "current", Scalar(0)).t # "dict"
    THEN [kind |-> "raise", exc |-> "TypeError", data |-> f0]
    ELSE IF ~Has(Current(r), "weather")
    THEN [kind |-> "raise", exc |-> "KeyError", data |-> f0]
    ELSE IF Len(Weather(r)) = 0
    THEN [kind |-> "raise", exc |-> "IndexError", data |-> f0]
    ELSE LET weather_info == Weather(r)[1]
             f1 == Update(f0, FlattenNestedDict(weather_info, "weather", "_"))
             f2 == Put(f1, "wind_gust", WindGust(r))
             f3 == Put(f2, "rain_1h", Rain1h(r))
             f4 == Put(f3, "snow_1h", Snow1h(r))
             f5 == Put(f4, "timestamp", Scalar("now"))
             f6 == Put(f5, "city", Scalar(city))
         IN [kind |-> "return", exc |-> "none", data |-> Drop(f6, dropped)]

\* flatten_reading_json: df.drop(columns=["weather", "1h"], errors="ignore")
FlattenReadingJson(city, r) == FlattenReading(city, r, {"weather", "1h"})

\* flatten_reading_json_async: df.drop(columns=["weather"], errors="ignore")
FlattenReadingJsonAsync(city, r) == FlattenReading(city, r, {"weather"})

\* the responses the flattener is run on
WindGustChoices == {<<>>, <<Entry("wind_gust", Scalar(0))>>, <<Entry("wind_gust", Scalar(7))>>}
PrecipChoices(name) ==
    {<<>>, <<Entry(name, Dict(<<>>))>>,
     <<Entry(name, Dict(<<Entry("1h", Scalar(1))>>))>>,
     <<Entry(name, Dict(<<Entry("1h", Scalar(3))>>))>>}
WeatherElems ==
    {<<Entry("id", Scalar(i)), Entry("main", Scalar(m))>> :
        i \in {500}, m \in {"Rain", "Clear"}}
WeatherChoices(n) == UNION {[1..k -> WeatherElems] : k \in 0..n}

\* records without any nested mapping
FlatReadings ==
    LET base == <<Entry("lat", Scalar(41)), Entry("lon", Scalar(28)),
                  Entry("timezone", Scalar("Europe/Istanbul"))>>
    IN {base \o <<Entry("temp", Scalar(280))>> \o gust \o current :
            gust \in WindGustChoices,
            current \in {<<>>, <<Entry("current", Scalar(280))>>}}

\* no value of the record is a mapping or a list of mappings
IsFlat(r) == \A i \in 1..Len(r) : r[i].v.t = "scalar"

MakeReading(gust, rain, snow, weather) ==
    <<Entry("lat", Scalar(41)), Entry("lon", Scalar(28)),
      Entry("timezone", Scalar("Europe/Istanbul")),
      Entry("current",
            Dict(<<Entry("dt", Scalar(1700000000)), Entry("temp", Scalar(280))>>
                 \o gust
                 \o <<Entry("weather", List(weather))>>
                 \o rain \o snow))>>

FlattenInit ==
    /\ DownloadIdle /\ MainIdle /\ CallIdle /\ ResolveIdle
    /\ flattener \in {"seq", "async"}
    /\ \/ \E gust \in WindGustChoices, rain \in PrecipChoices("rain"),
             snow \in PrecipChoices("snow"), weather \in WeatherChoices(MaxWeather) :
             reading = MakeReading(gust, rain, snow, weather)
       \/ reading \in FlatReadings
    /\ fpc = "input"
    /\ flattened_data = <<>> /\ fexc = "none"

\* df = flatten_reading_json(city, reading)
FlattenSeq ==
    /\ fpc = "input" /\ flattener = "seq"
    /\ LET r == FlattenReadingJson(FlattenCity, reading)
       IN /\ fpc' = IF r.kind = "return" THEN "flat" ELSE "raised"
          /\ flattened_data' = r.data
          /\ fexc' = r.exc
    /\ UNCHANGED <<flattener, reading>>
    /\ UNCHANGED <<download_vars, main_vars, call_vars, resolve_vars>>

\* df = await flatten_reading_json_async(city, reading)
FlattenAsync ==
    /\ fpc = "input" /\ flattener = "async"
    /\ LET r == FlattenReadingJsonAsync(FlattenCity, reading)
       IN /\ fpc' = IF r.kind = "return" THEN "flat" ELSE "raised"
          /\ flattened_data' = r.data
          /\ fexc' = r.exc
    /\ UNCHANGED <<flattener, reading>>
    /\ UNCHANGED <<download_vars, main_vars, call_vars, resolve_vars>>

FlattenNext ==
    \/ FlattenSeq
    \/ FlattenAsync

FlattenSpec == FlattenInit /\ [][FlattenNext]_vars

\* ---------------------------------------------------- coordinate resolver
\* cities a configuration can request: a city without state, a non-US city
\* with a state, a US city with a state, a US city without one
GeoCities == <<"Istanbul", "London", "Springfield", "Portland">>
GeoCitySet == {GeoCities[i] : i \in 1..Len(GeoCities)}

\* co_st["country"]
Country(c) ==
    CASE c = "Istanbul" -> "TR"
      [] c = "London" -> "GB"
      [] OTHER -> "US"

\* a cities entry without a "state" key
NoState == "no state"

\* co_st["state"]
State(c) ==
    CASE c = "London" -> "ENG"
      [] c = "Springfield" -> "IL"
      [] OTHER -> NoState

\* the mapping that requests the cities of S, in configuration order
CitySeq(S) == SelectSeq(GeoCities, LAMBDA c : c \in S)

\* cities_key_set = set(cities.keys())
CitiesKeySet == {cfg_cities[i] : i \in 1..Len(cfg_cities)}

\* q_value: the query of one city, a KeyError when co_st has no "state"
QValue(c) ==
    IF Country(c) = "US"
    THEN IF State(c) = NoState THEN <<"KeyError">> ELSE <<c, State(c), Country(c)>>
    ELSE <<c, Country(c)>>

\* the provider's answers that end get_lat_lon, and what each raises:
\* data[0] on an empty array, response.raise_for_status(), httpx.get
GeoFailures == {"empty", "status", "network"}
GeoError(a) ==
    CASE a = "empty" -> "IndexError"
      [] a = "status" -> "HTTPStatusError"
      [] a = "network" -> "ConnectError"

\* handlers that take every LookupError
CaughtByUpdate_LookupError(e) == e \in {"FileNotFoundError", "KeyError", "IndexError"}

\* except FileNotFoundError / except KeyError of update_city_lat_lon
CaughtByUpdate(e) == e \in {"FileNotFoundError", "KeyError"}

\* update_city_lat_lon returned a mapping (not None) without raising
ReturnedMapping == rpc = "returned" /\ rexc = "none"

ResolveInit ==
    /\ DownloadIdle /\ MainIdle /\ FlattenIdle /\ CallIdle
    /\ file_present \in BOOLEAN
    /\ \E S \in SUBSET GeoCitySet, L \in SUBSET GeoCitySet, C \in SUBSET GeoCitySet :
          /\ ~file_present => (S = {} /\ L = {} /\ C = {})
          /\ cfg_cities = CitySeq(S)
          /\ cfg_city_lat_lon = [c \in L |-> "file"]
          /\ cfg_cached = [c \in C |-> "cache"]
    /\ rpc = "open" /\ run = 1
    /\ loaded_city_lat_lon = <<>> /\ resolved = {} /\ city_index = 0
    /\ lookups = <<>> /\ writes = 0 /\ ret = <<>> /\ rexc = "none"
    /\ answer = "none" /\ failed = FALSE /\ main_pc = "resolve"

\* open(CITIES_CONFIG_PATH) fails: except FileNotFoundError logs, the
\* function falls off its end and returns None
OpenMissing ==
    /\ rpc = "open" /\ ~file_present
    /\ rexc' = "FileNotFoundError"
    /\ rpc' = IF CaughtByUpdate("FileNotFoundError") THEN "returned" ELSE "raised"
    /\ UNCHANGED <<file_present, cfg_cities, cfg_city_lat_lon, cfg_cached, run,
                   loaded_city_lat_lon, resolved, city_index, lookups, writes,
                   ret, answer, failed, main_pc>>
    /\ UNCHANGED <<download_vars, main_vars, flatten_vars, call_vars>>

\* data = json.load(file); city_lat_lon = data.get("city_lat_lon", {})
Load ==
    /\ rpc = "open" /\ file_present
    /\ loaded_city_lat_lon' = cfg_city_lat_lon
    /\ rpc' = "branch"
    /\ UNCHANGED <<file_present, cfg_cities, cfg_city_lat_lon, cfg_cached, run,
                   resolved, city_index, lookups, writes, ret, rexc, answer,
                   failed, main_pc>>
    /\ UNCHANGED <<download_vars, main_vars, flatten_vars, call_vars>>

\* neither branch is taken: return city_lat_lon
UpToDate ==
    /\ rpc = "branch"
    /\ CitiesKeySet = DOMAIN loaded_city_lat_lon
    /\ ret' = loaded_city_lat_lon
    /\ rpc' = "returned"
    /\ UNCHANGED <<file_present, cfg_cities, cfg_city_lat_lon, cfg_cached, run,
                   loaded_city_lat_lon, resolved, city_index, lookups, writes,
                   rexc, answer, failed, main_pc>>
    /\ UNCHANGED <<download_vars, main_vars, flatten_vars, call_vars>>

\* the cache branch: the missing keys are copied from cached_city_lat_lon,
\* the file is rewritten and city_lat_lon is returned
FromCache ==
    /\ rpc = "branch"
    /\ CitiesKeySet # DOMAIN loaded_city_lat_lon
    /\ CitiesKeySet \subseteq DOMAIN cfg_cached
    /\ LET keys_to_update == CitiesKeySet \ DOMAIN loaded_city_lat_lon
           updated == [c \in DOMAIN loaded_city_lat_lon \cup keys_to_update |->
                          IF c \in keys_to_update THEN cfg_cached[c]
                          ELSE loaded_city_lat_lon[c]]
       IN /\ loaded_city_lat_lon' = updated
          /\ cfg_city_lat_lon' = updated
          /\ ret' = updated
    /\ writes' = writes + 1
    /\ rpc' = "returned"
    /\ UNCHANGED <<file_present, cfg_cities, cfg_cached, run, resolved, city_index,
                   lookups, rexc, answer, failed, main_pc>>
    /\ UNCHANGED <<download_vars, main_vars, flatten_vars, call_vars>>

\* the elif branch: updated_city_lat_lon = get_lat_lon(cities) is entered
StartLookups ==
    /\ rpc = "branch"
    /\ CitiesKeySet # DOMAIN loaded_city_lat_lon
    /\ ~(CitiesKeySet \subseteq DOMAIN cfg_cached)
    /\ city_index' = 1
    /\ rpc' = "lookup"
    /\ UNCHANGED <<file_present, cfg_cities, cfg_city_lat_lon, cfg_cached, run,
                   loaded_city_lat_lon, resolved, lookups, writes, ret, rexc,
                   answer, failed, main_pc>>
    /\ UNCHANGED <<download_vars, main_vars, flatten_vars, call_vars>>

\* get_lat_lon: co_st['state'] of a US entry without state raises KeyError,
\* which update_city_lat_lon catches and logs before returning None
QueryKeyError ==
    /\ rpc = "lookup" /\ city_index <= Len(cfg_cities)
    /\ QValue(cfg_cities[city_index]) = <<"KeyError">>
    /\ failed' = TRUE
    /\ rexc' = "KeyError"
    /\ rpc' = IF CaughtByUpdate("KeyError") THEN "returned" ELSE "raised"
    /\ UNCHANGED <<file_present, cfg_cities, cfg_city_lat_lon, cfg_cached, run,
                   loaded_city_lat_lon, resolved, city_index, lookups, writes,
                   ret, answer, main_pc>>
    /\ UNCHANGED <<download_vars, main_vars, flatten_vars, call_vars>>

\* get_lat_lon: one turn of the loop, the provider returns a match and
\* data[0] gives the city its lat and lon
LookupFound ==
    /\ rpc = "lookup" /\ city_index <= Len(cfg_cities)
    /\ QValue(cfg_cities[city_index]) # <<"KeyError">>
    /\ lookups' = Append(lookups, [city |-> cfg_cities[city_index],
                                   q |-> QValue(cfg_cities[city_index]),
                                   limit |-> 1])
    /\ answer' = "found"
    /\ resolved' = resolved \cup {cfg_cities[city_index]}
    /\ city_index' = city_index + 1
    /\ UNCHANGED <<file_present, cfg_cities, cfg_city_lat_lon, cfg_cached, run,
                   loaded_city_lat_lon, writes, ret, rexc, failed, rpc, main_pc>>
    /\ UNCHANGED <<download_vars, main_vars, flatten_vars, call_vars>>

\* a loop that logs the failure and goes on with the next city
LookupFail_Skip ==
    /\ rpc = "lookup" /\ city_index <= Len(cfg_cities)
    /\ QValue(cfg_cities[city_index]) # <<"KeyError">>
    /\ lookups' = Append(lookups, [city |-> cfg_cities[city_index],
                                   q |-> QValue(cfg_cities[city_index]),
                                   limit |-> 1])
    /\ \E a \in GeoFailures : answer' = a
    /\ failed' = TRUE
    /\ city_index' = city_index + 1
    /\ UNCHANGED <<file_present, cfg_cities, cfg_city_lat_lon, cfg_cached, run,
                   loaded_city_lat_lon, resolved, writes, ret, rexc, rpc, main_pc>>
    /\ UNCHANGED <<download_vars, main_vars, flatten_vars, call_vars>>

\* get_lat_lon: the lookup of one city fails and the exception leaves
\* get_lat_lon; update_city_lat_lon has no handler for it unless it is a
\* KeyError
LookupFail ==
    /\ rpc = "lookup" /\ city_index <= Len(cfg_cities)
    /\ QValue(cfg_cities[city_index]) # <<"KeyError">>
    /\ lookups' = Append(lookups, [city |-> cfg_cities[city_index],
                                   q |-> QValue(cfg_cities[city_index]),
                                   limit |-> 1])
    /\ \E a \in GeoFailures :
          /\ answer' = a
          /\ rexc' = GeoError(a)
          /\ rpc' = IF CaughtByUpdate(GeoError(a)) THEN "returned" ELSE "raised"
    /\ failed' = TRUE
    /\ UNCHANGED <<file_present, cfg_cities, cfg_city_lat_lon, cfg_cached, run,
                   loaded_city_lat_lon, resolved, city_index, writes, ret, main_pc>>
    /\ UNCHANGED <<download_vars, main_vars, flatten_vars, call_vars>>

\* get_lat_lon returns cities with lat and lon; data["city_lat_lon"] is set
\* to it and written; the function returns its local city_lat_lon
FinishLookups ==
    /\ rpc = "lookup" /\ city_index > Len(cfg_cities)
    /\ cfg_city_lat_lon' = [c \in CitiesKeySet |-> "geo"]
    /\ writes' = writes + 1
    /\ ret' = loaded_city_lat_lon
    /\ rpc' = "returned"
    /\ UNCHANGED <<file_present, cfg_cities, cfg_cached, run, loaded_city_lat_lon,
                   resolved, city_index, lookups, rexc, answer, failed, main_pc>>
    /\ UNCHANGED <<download_vars, main_vars, flatten_vars, call_vars>>

\* main: initial_report(...) reads city_lat_lon.keys(), which raises
\* AttributeError on None; otherwise main goes on to the download
MainReport ==
    /\ main_pc = "resolve" /\ rpc = "returned"
    /\ main_pc' = IF ReturnedMapping THEN "download" ELSE "raised"
    /\ UNCHANGED <<file_present, cfg_cities, cfg_city_lat_lon, cfg_cached, rpc, run,
                   loaded_city_lat_lon, resolved, city_index, lookups, writes,
                   ret, rexc, answer, failed>>
    /\ UNCHANGED <<download_vars, main_vars, flatten_vars, call_vars>>

\* main has no handler: the exception of update_city_lat_lon ends main
MainPropagates ==
    /\ main_pc = "resolve" /\ rpc = "raised"
    /\ main_pc' = "raised"
    /\ UNCHANGED <<file_present, cfg_cities, cfg_city_lat_lon, cfg_cached, rpc, run,
                   loaded_city_lat_lon, resolved, city_index, lookups, writes,
                   ret, rexc, answer, failed>>
    /\ UNCHANGED <<download_vars, main_vars, flatten_vars, call_vars>>

\* the program is run again with the configuration file as it was left
NextRun ==
    /\ main_pc = "download" /\ run < MaxRuns
    /\ run' = run + 1
    /\ rpc' = "open" /\ main_pc' = "resolve"
    /\ loaded_city_lat_lon' = <<>> /\ resolved' = {} /\ city_index' = 0
    /\ lookups' = <<>> /\ writes' = 0 /\ ret' = <<>> /\ rexc' = "none"
    /\ answer' = "none" /\ failed' = FALSE
    /\ UNCHANGED <<file_present, cfg_cities, cfg_city_lat_lon, cfg_cached>>
    /\ UNCHANGED <<download_vars, main_vars, flatten_vars, call_vars>>

ResolveNext ==
    \/ OpenMissing
    \/ Load
    \/ UpToDate
    \/ FromCache
    \/ StartLookups
    \/ QueryKeyError
    \/ LookupFound
    \/ LookupFail
    \/ FinishLookups
    \/ MainReport
    \/ MainPropagates
    \/ NextRun

ResolveSpec == ResolveInit /\ [][ResolveNext]_vars

\* ------------------------------------------------------------ properties
\* the call has ended, by return or by an exception
Finished == pc \in {"returned", "raised"}

\* number of tasks whose outcome the aggregation loop has tallied
P == Cardinality(consumed)

\* the step in which the aggregation loop takes the outcome of city c
AggregationStep(c) ==
    /\ pc = "try" /\ cur = c
    /\ pc' # "try" /\ interrupt' = interrupt

FailureOutcomes == {"server_error", "timeout", "malformed"}

\* C1: without cancellation, the tally a finished run has accumulated sums
\* to the number of cities submitted.
C1_TallySumsToSubmitted ==
    (Finished /\ interrupt = "none") => Total(counter) = M

\* C2: failures are isolated: when some city's fetch fails, every other
\* submitted city has still been fetched and tallied when the run ends.
C2_FailuresIsolated ==
    (Finished /\ interrupt = "none") =>
        \A c, d \in Cities :
            (c # d /\ fetch[c] # "ok") => (task[d] = "done" /\ d \in consumed)

\* C3: without cancellation no run ends by raising, whatever the per-city
\* outcomes and also for an empty city mapping.
C3_NeverRaises ==
    interrupt = "none" => pc # "raised"

\* C4: the batch of a finished run holds each city whose fetch succeeds
\* exactly once and no other city.
C4_BatchIsOkCities ==
    (Finished /\ interrupt = "none") =>
        /\ Names(dataframes) = {c \in Cities : fetch[c] = "ok"}
        /\ Len(dataframes) = Cardinality(Names(dataframes))

\* C5: taking the outcome of a city the endpoint answers with not-found adds
\* one to NOT_FOUND, leaves OK and ERROR alone and adds no record.
C5_NotFoundTallied ==
    [][\A c \in Cities :
          (AggregationStep(c) /\ fetch[c] = "not_found") =>
              /\ counter' = [counter EXCEPT !["NOT_FOUND"] = @ + 1]
              /\ dataframes' = dataframes]_vars

\* C6: taking the outcome of a city whose fetch fails otherwise (5xx, timeout,
\* malformed body) adds one to ERROR, leaves OK and NOT_FOUND alone and adds
\* no record.
C6_ErrorTallied ==
    [][\A c \in Cities :
          (AggregationStep(c) /\ fetch[c] \in FailureOutcomes) =>
              /\ counter' = [counter EXCEPT !["ERROR"] = @ + 1]
              /\ dataframes' = dataframes]_vars

\* C7: with a pool or gate of size K the number of fetches in flight at the
\* same time never exceeds K.
C7_InFlightBounded ==
    concur_type \in PoolTypes \cup {"coroutine"} =>
        Cardinality(InFlight) <= max_concur_req

\* K fetches are in flight while further cities wait for a worker or permit
C7_Witness ==
    /\ concur_type \in PoolTypes \cup {"coroutine"}
    /\ M > max_concur_req
    /\ Cardinality(InFlight) = max_concur_req
    /\ \E c \in Cities : task[c] = "queued"

\* C8: an interrupt at any point of the run makes download_many return the
\* partial result instead of raising.
C8_InterruptReturnsPartial ==
    interrupt # "none" => pc # "raised"

\* C9: a run cancelled after P tasks were aggregated returns a tally that
\* sums to P and a batch of at most P records.
C9_CancelledAfterP ==
    (Finished /\ interrupt = "caught") =>
        /\ pc = "returned"
        /\ Total(counter) = P
        /\ Len(dataframes) <= P

Concurrent == PoolTypes \cup {"coroutine"}

\* position of a city in the mapping
Index(c) == CHOOSE i \in 1..M : city_lat_lon[i] = c

\* C11: the pool / the async client is open while fetches run and is
\* released on every exit of download_many: return, cancellation, exception.
C11_ResourceReleased ==
    concur_type \in Concurrent =>
        /\ Finished => resource = "closed"
        /\ InFlight # {} => resource = "open"

\* an exception raised while aggregating has left the call
C11_Witness ==
    /\ concur_type \in Concurrent
    /\ pc = "raised" /\ exc = "UnboundLocalError"
    /\ resource = "closed"

\* C12: at most one request is issued per city in a run.
C12_AtMostOneRequest ==
    \A c \in Cities : requests[c] <= 1

\* a run has ended with a failed fetch that was issued once
C12_Witness ==
    /\ Finished
    /\ \E c \in Cities : fetch[c] # "ok" /\ task[c] = "done" /\ requests[c] = 1

\* C13: the sequential strategy starts the fetch of a city only after every
\* earlier city of the mapping has been tallied, and the records are in
\* mapping order.
C13_SequentialInOrder ==
    concur_type = "seq" =>
        /\ \A i \in 1..M :
              task[city_lat_lon[i]] # "none" =>
                  \A j \in 1..(i - 1) : city_lat_lon[j] \in consumed
        /\ \A a, b \in 1..Len(dataframes) :
              a < b => Index(dataframes[a]) < Index(dataframes[b])

\* a sequential run has returned at least two records
C13_Witness ==
    /\ concur_type = "seq" /\ pc = "returned"
    /\ Len(dataframes) >= 2

\* C14: in the pool and cooperative strategies the result of an uncancelled
\* run is determined by the cities and their outcomes alone, whatever the
\* order in which the tasks complete.
C14_OrderInsensitive ==
    (concur_type \in Concurrent /\ Finished /\ interrupt = "none") =>
        IF M > 0 /\ \A c \in Cities : fetch[c] = "ok"
        THEN /\ pc = "returned"
             /\ counter = [s \in DownloadStatus |-> IF s = "OK" THEN M ELSE 0]
             /\ Names(dataframes) = Cities
             /\ Len(dataframes) = M
        ELSE pc = "raised"

\* a run has returned records in an order other than the mapping's
C14_Witness ==
    /\ concur_type \in Concurrent /\ pc = "returned" /\ interrupt = "none"
    /\ M >= 2 /\ dataframes[1] # city_lat_lon[1]

\* C15: counter and dataframes change only in a step of the aggregation
\* loop; in the concurrent strategies no step of a per-city task changes them.
C15_OnlyAggregatorWrites ==
    [][(counter' # counter \/ dataframes' # dataframes) =>
          /\ pc = "try"
          /\ concur_type \in Concurrent => task' = task]_vars

\* a task has finished and its outcome is not in the tally that others are in
C15_Witness ==
    /\ concur_type \in Concurrent
    /\ Total(counter) >= 1
    /\ \E c \in Cities : task[c] = "done" /\ c \notin consumed

\* C16: every uninterrupted run through the admission gate ends by returning,
\* with every submitted task admitted and completed.
C16_EveryRunReturns ==
    (concur_type = "coroutine" /\ M > 0) =>
        <>(interrupt # "none"
           \/ (pc = "returned" /\ \A c \in Cities : task[c] = "done"))

\* C17: every row main hands to save_to_pq and save_to_db passed validation.
C17_OnlyValidPersisted ==
    /\ \A i \in 1..Len(pq_file) : ReadingValid(pq_file[i])
    /\ \A i \in 1..Len(db_table) : ReadingValid(db_table[i])

\* C18: validate_reading returns the batch it was given, same rows in the
\* same order, and its valid and invalid counts add up to the number of rows.
C18_ValidationPassThrough ==
    mpc \in {"save_pq", "save_db", "done"} =>
        /\ valid_readings_batch = main_df
        /\ valid_rows_count + Len(invalid_rows) = Len(main_df)

\* validation has returned a batch in which it counted an invalid row
C18_Witness ==
    /\ mpc \in {"save_pq", "save_db", "done"}
    /\ Len(invalid_rows) >= 1
    /\ valid_rows_count >= 1

\* the keys of the scalar and list fields of a nested mapping, at any depth
RECURSIVE LeafKeys(_)
LeafKeys(d) ==
    UNION {IF d[i].v.t = "dict" THEN LeafKeys(d[i].v.d) ELSE {d[i].k} :
              i \in 1..Len(d)}

AddedKeys == {"wind_gust", "rain_1h", "snow_1h", "timestamp", "city"}

C20_Defaults ==
    (fpc = "flat" /\ Len(Weather(reading)) = 1) =>
        /\ ~Has(Current(reading), "wind_gust") => flattened_data["wind_gust"].s = 0
        /\ ~Has(Current(reading), "rain") => flattened_data["rain_1h"].s = 0
        /\ ~Has(Current(reading), "snow") => flattened_data["snow_1h"].s = 0
        /\ Has(Get(Current(reading), "rain", Dict(<<>>)).d, "1h") =>
              flattened_data["rain_1h"] =
                  Get(Get(Current(reading), "rain", Dict(<<>>)).d, "1h", Scalar(0))
        /\ Has(Get(Current(reading), "snow", Dict(<<>>)).d, "1h") =>
              flattened_data["snow_1h"] =
                  Get(Get(Current(reading), "snow", Dict(<<>>)).d, "1h", Scalar(0))

\* a response without wind_gust, rain and snow was flattened
C20_Witness ==
    /\ fpc = "flat" /\ Len(Weather(reading)) = 1
    /\ ~Has(Current(reading), "wind_gust")
    /\ ~Has(Current(reading), "rain")
    /\ ~Has(Current(reading), "snow")
    /\ flattened_data["wind_gust"].s = 0

\* the record as a function from its keys
AsRecord(r) == [k \in {r[i].k : i \in 1..Len(r)} |-> Get(r, k, Scalar(0))]

\* C21 as stated: applied to a record without nested mappings the flattener
\* does not fail and returns every input field unchanged, adding only the
\* promoted and added fields.
C21_FlatInputReturned ==
    (IsFlat(reading) /\ fpc # "input") =>
        /\ fpc = "flat"
        /\ \A k \in DOMAIN AsRecord(reading) \ {"wind_gust"} :
              k \in DOMAIN flattened_data /\ flattened_data[k] = AsRecord(reading)[k]
        /\ DOMAIN flattened_data \subseteq DOMAIN AsRecord(reading) \cup AddedKeys

\* C21 amended: the recursive flattening of a record without nested mappings
\* leaves every field unchanged and adds none, and the reading flattener
\* then fails on it with KeyError or TypeError, having no current.weather.
C21_FlatInputUnchangedThenRaises ==
    (IsFlat(reading) /\ fpc # "input") =>
        /\ fpc = "raised"
        /\ fexc \in {"KeyError", "TypeError"}
        /\ flattened_data = AsRecord(reading)

\* a record without nested mappings was given to the flattener
C21_Witness ==
    /\ IsFlat(reading) /\ fpc = "raised" /\ fexc = "KeyError"
    /\ Has(reading, "wind_gust") /\ "wind_gust" \in DOMAIN flattened_data

\* C27: supervisor called without a concurrency limit fetches and tallies
\* every city (one after the other) and returns.
C27_NoLimitFetchesAll ==
    (/\ entry = "supervisor" /\ arg_max_concur_req = NoLimit
     /\ Finished /\ interrupt = "none"
     /\ M > 0 /\ \A c \in Cities : fetch[c] = "ok") =>
        /\ pc = "returned"
        /\ \A c \in Cities : requests[c] = 1
        /\ Total(counter) = M

\* C28: with main run as coroutine and max_concur_req = K from the caller,
\* at most K fetches are in flight at any time.
C28_MainGateIsCallersLimit ==
    (entry = "main" /\ arg_max_concur_req # NoLimit) =>
        Cardinality(InFlight) <= arg_max_concur_req

C22_OnlyMissingLookedUp ==
    \A i \in 1..Len(lookups) : lookups[i].city \notin DOMAIN loaded_city_lat_lon

\* C23: the mapping update_city_lat_lon returns has exactly the requested
\* cities as keys, whichever branch produced it.
C23_ReturnsRequestedCities ==
    (ReturnedMapping /\ cfg_cities # <<>>) => DOMAIN ret = CitiesKeySet

\* Python's LookupError and its subclasses
LookupErrors == {"LookupError", "IndexError", "KeyError"}

\* C24 as stated: an empty array and a non-success status both end the
\* resolution with a LookupError raised to its caller.
C24_FailsWithLookupError ==
    answer \in {"empty", "status"} =>
        /\ rpc = "raised"
        /\ rexc \in LookupErrors

\* C24 amended: an empty array ends the resolution with IndexError (a
\* LookupError), a non-success status with httpx.HTTPStatusError (not a
\* LookupError); either is raised to the caller and ends main.
C24_FailsWithIndexOrStatusError ==
    /\ answer = "empty" => (rpc = "raised" /\ rexc = "IndexError")
    /\ answer = "status" => (rpc = "raised" /\ rexc = "HTTPStatusError")
    /\ answer \in {"empty", "status"} => main_pc \in {"resolve", "raised"}

\* the provider answered the second city with a non-success status and main
\* ended with the exception
C24_Witness ==
    /\ answer = "status" /\ rpc = "raised" /\ rexc = "HTTPStatusError"
    /\ resolved # {} /\ main_pc = "raised"

\* C25: after a failed lookup update_city_lat_lon returns no mapping, the
\* persisted city_lat_lon is as it was loaded and main does not reach the
\* download.
C25_FailureIsFatal ==
    failed =>
        /\ ~ReturnedMapping
        /\ ret = <<>>
        /\ cfg_city_lat_lon = loaded_city_lat_lon
        /\ writes = 0
        /\ main_pc # "download"

\* the lookup of a later city failed after an earlier one had succeeded
C25_Witness ==
    /\ failed /\ resolved # {} /\ main_pc = "raised"
    /\ DOMAIN loaded_city_lat_lon # {}

\* the query the claim prescribes for a city
ExpectedQuery(c) ==
    IF Country(c) = "US" /\ State(c) # NoState
    THEN <<c, State(c), Country(c)>>
    ELSE <<c, Country(c)>>

\* C26: every city the resolver's loop reaches gets exactly one lookup, with
\* limit 1 and the query city,state,country for a US city with a state and
\* city,country in every other case.
C26_QueryString ==
    /\ \A i \in 1..Len(lookups) :
          /\ lookups[i].q = ExpectedQuery(lookups[i].city)
          /\ lookups[i].limit = 1
    /\ \A i, j \in 1..Len(lookups) : lookups[i].city = lookups[j].city => i = j
    /\ \A k \in 1..Len(cfg_cities) :
          (k < city_index \/ (k = city_index /\ failed)) =>
              \E i \in 1..Len(lookups) : lookups[i].city = cfg_cities[k]

\* C30: when update_city_lat_lon has completed without error the persisted
\* city_lat_lon has exactly the requested cities as keys, and the run that
\* follows issues no lookup and does not rewrite the file.
C30_PersistedThenReused ==
    cfg_cities # <<>> =>
        /\ ReturnedMapping => DOMAIN cfg_city_lat_lon = CitiesKeySet
        /\ run > 1 => (lookups = <<>> /\ writes = 0)

\* C31: in the cooperative strategy free permits plus tasks holding one
\* equal the gate's capacity; a task holds a permit only while its one
\* request is issued and not yet answered; once every task has ended, on
\* whatever outcome, all permits are free.
C31_PermitsConserved ==
    (concur_type = "coroutine" /\ pc # "start") =>
        /\ semaphore + Cardinality(InFlight) = max_concur_req
        /\ semaphore >= 0
        /\ \A c \in InFlight : requests[c] = 1 /\ task_result[c] = NoResult
        /\ (\A c \in Cities : task[c] \in {"done", "cancelled"}) =>
              semaphore = max_concur_req

\* one task ended on a failed fetch while another holds a permit
C31_Witness ==
    /\ concur_type = "coroutine" /\ pc = "wait"
    /\ \E c \in Cities : task[c] = "done" /\ fetch[c] \in {"not_found", "timeout"}
    /\ \E c \in Cities : task[c] = "running"
    /\ semaphore + 1 = max_concur_req

\* what the other flattener makes of the same reading
OtherFlattener ==
    IF flattener = "seq"
    THEN FlattenReadingJsonAsync(FlattenCity, reading)
    ELSE FlattenReadingJson(FlattenCity, reading)

\* C32: flatten_reading_json and flatten_reading_json_async produce, for
\* every reading, records with the same field names and, apart from the
\* timestamp, the same values.
C32_FlattenersEquivalent ==
    fpc = "flat" =>
        /\ OtherFlattener.kind = "return"
        /\ DOMAIN flattened_data = DOMAIN OtherFlattener.data
        /\ \A k \in (DOMAIN flattened_data \cap DOMAIN OtherFlattener.data) \ {"timestamp"} :
              flattened_data[k] = OtherFlattener.data[k]

\* the strategy the claim prescribes for a value of concur_type
ExpectedStrategy(ct) ==
    IF ct \in {"thread", "process", "coroutine"} THEN ct ELSE "seq"

\* C33: main called as a function calls the strategy that belongs to its
\* concur_type, for every value of it, and has that strategy's result when
\* it goes on to validation; it never goes on without one.
C33_MainSelectsOneStrategy ==
    /\ spc # "select" => selected = ExpectedStrategy(arg_concur_type)
    /\ spc = "validate" => result = "bound"
    /\ spc = "raised" => selected # "none"
====
